---------------------------- MODULE Spec2Model ----------------------------
(***************************************************************************)
(* Model of mpa/modules/hooks/auxiliary_hooks.py (BaseAuxiliaryHook and    *)
(* its three transforms) and of the hook usage in mpa/cls/explainer.py.    *)
(*                                                                         *)
(* Tensors hold float32 values.  A float32 is the pair <<m, e>> with value *)
(* m * 2^e, where m = 0 (and e = 0) or 2^23 <= |m| < 2^24.  The arithmetic *)
(* below rounds to nearest, ties to even, as IEEE-754 binary32 does; the   *)
(* exponent range is not bounded (no value of the model comes near the     *)
(* subnormal or the overflow range).                                       *)
(***************************************************************************)
EXTENDS Integers, Sequences, FiniteSets, TLC

\* significand width of torch.float32
MantBits == 24

MantLo == 2 ^ (MantBits - 1)
MantHi == 2 ^ MantBits

Abs(n) == IF n < 0 THEN -n ELSE n
Sgn(n) == IF n < 0 THEN -1 ELSE 1
Min2(a, b) == IF a <= b THEN a ELSE b

FZero == <<0, 0>>
FNeg(a) == <<-a[1], a[2]>>
FAbs(a) == <<Abs(a[1]), a[2]>>
FSign(s, a) == <<s * a[1], a[2]>>

\* number of bits of n beyond the significand width (n >= MantHi)
RECURSIVE ExtraBits(_)
ExtraBits(n) == IF n < MantHi THEN 0 ELSE 1 + ExtraBits(n \div 2)

\* an exactly representable n * 2^e (0 < n < MantHi), normalised
RECURSIVE NormUp(_, _)
NormUp(n, e) == IF n >= MantLo THEN <<n, e>> ELSE NormUp(2 * n, e - 1)

\* (n + f) * 2^e rounded to nearest-even, n >= 0, 0 <= f < 1, f > 0 iff sticky
RoundNE(n, e, sticky) ==
    IF n = 0 THEN FZero
    ELSE IF n < MantHi THEN NormUp(n, e)
    ELSE LET s    == ExtraBits(n)
             q    == n \div (2 ^ s)
             r    == n % (2 ^ s)
             half == 2 ^ (s - 1)
             up   == \/ r > half
                     \/ r = half /\ sticky
                     \/ r = half /\ ~sticky /\ q % 2 = 1
             q1   == IF up THEN q + 1 ELSE q
         IN  IF q1 = MantHi THEN <<MantLo, e + s + 1>> ELSE <<q1, e + s>>

\* the float32 nearest to the integer n
FromInt(n) == FSign(Sgn(n), RoundNE(Abs(n), 0, FALSE))

\* |a| <= |b|
MagLE(a, b) ==
    IF a[1] = 0 THEN TRUE
    ELSE IF b[1] = 0 THEN FALSE
    ELSE IF a[2] # b[2] THEN a[2] < b[2]
    ELSE Abs(a[1]) <= Abs(b[1])

\* a <= b
FLE(a, b) ==
    IF a[1] < 0 /\ b[1] >= 0 THEN TRUE
    ELSE IF a[1] >= 0 /\ b[1] < 0 THEN FALSE
    ELSE IF a[1] >= 0 THEN MagLE(a, b)
    ELSE MagLE(b, a)

\* a + b for a, b >= 0
FAddMag(a, b) ==
    IF a[1] = 0 THEN b
    ELSE IF b[1] = 0 THEN a
    ELSE LET hi   == IF a[2] >= b[2] THEN a ELSE b
             lo   == IF a[2] >= b[2] THEN b ELSE a
             diff == hi[2] - lo[2]
         IN  IF diff <= 6
             THEN RoundNE(hi[1] * (2 ^ diff) + lo[1], lo[2], FALSE)
             ELSE LET k == Min2(diff - 6, 25)
                  IN  RoundNE(hi[1] * 64 + (lo[1] \div (2 ^ k)), hi[2] - 6,
                              lo[1] % (2 ^ k) # 0)

\* a - b for a >= b >= 0
FSubMag(a, b) ==
    IF b[1] = 0 THEN a
    ELSE LET diff == a[2] - b[2]
         IN  IF diff <= 6
             THEN RoundNE(a[1] * (2 ^ diff) - b[1], b[2], FALSE)
             ELSE LET k  == Min2(diff - 6, 25)
                      st == b[1] % (2 ^ k) # 0
                  IN  RoundNE(a[1] * 64 - (b[1] \div (2 ^ k)) - (IF st THEN 1 ELSE 0),
                              a[2] - 6, st)

\* a + b
FAdd(a, b) ==
    IF Sgn(a[1]) = Sgn(b[1]) \/ a[1] = 0 \/ b[1] = 0
    THEN LET s == IF a[1] # 0 THEN Sgn(a[1]) ELSE Sgn(b[1])
         IN  FSign(s, FAddMag(FAbs(a), FAbs(b)))
    ELSE IF MagLE(b, a)
         THEN FSign(Sgn(a[1]), FSubMag(FAbs(a), FAbs(b)))
         ELSE FSign(Sgn(b[1]), FSubMag(FAbs(b), FAbs(a)))

\* a - b
FSub(a, b) == FAdd(a, FNeg(b))

\* 255 * a
FMul255(a) ==
    IF a[1] = 0 THEN FZero
    ELSE LET m   == Abs(a[1])
             hi  == m \div 256
             lo  == m % 256
             phi == 255 * hi + ((255 * lo) \div 256)
             plo == (255 * lo) % 256
         IN  FSign(Sgn(a[1]),
                   RoundNE(4 * phi + (plo \div 64), a[2] + 6, plo % 64 # 0))

\* <<floor(num * 2^k / den), num * 2^k mod den>> by long division
RECURSIVE DivBits(_, _, _)
DivBits(num, den, k) ==
    IF k = 0 THEN <<num \div den, num % den>>
    ELSE LET p == DivBits(num, den, k - 1)
         IN  <<2 * p[1] + ((2 * p[2]) \div den), (2 * p[2]) % den>>

\* a / b, b # 0
FDiv(a, b) ==
    IF a[1] = 0 THEN FZero
    ELSE LET p == DivBits(Abs(a[1]), Abs(b[1]), MantBits + 1)
         IN  FSign(Sgn(a[1]) * Sgn(b[1]),
                   RoundNE(p[1], a[2] - b[2] - (MantBits + 1), p[2] # 0))

\* .to(torch.uint8) of a float in [0, 2^24): truncation
ToUint8(a) ==
    IF a[2] >= 0 THEN a[1] * (2 ^ a[2])
    ELSE a[1] \div (2 ^ Min2(-a[2], 30))


(***************************************************************************)
(* Tensors.  A 4-D torch tensor (bs, c, h, w) is [h, w, data] with         *)
(* data[b][ch][p] the float32 at batch b, channel ch and pixel p (pixels   *)
(* in row-major order, p in 1..h*w).  The output of the hooked module is   *)
(* [kind |-> "tensor", t |-> T] or [kind |-> "list", items |-> <<T1,..>>]. *)
(* The array a transform returns is [shape, data] with data in row-major   *)
(* order, as numpy holds it.                                               *)
(***************************************************************************)
RECURSIVE Prod(_)
Prod(s) == IF s = <<>> THEN 1 ELSE s[1] * Prod(Tail(s))

RECURSIVE Concat(_)
Concat(ss) == IF ss = <<>> THEN <<>> ELSE ss[1] \o Concat(Tail(ss))

\* len(array)
ArrLen(a) == a.shape[1]

\* the i-th element of iterating an array along its first axis
ArrItem(a, i) ==
    LET n == Prod(Tail(a.shape))
    IN  [shape |-> Tail(a.shape), data |-> SubSeq(a.data, (i - 1) * n + 1, i * n)]

\* sum of a sequence of floats, accumulated left to right
RECURSIVE SumF(_)
SumF(s) == IF s = <<>> THEN FZero ELSE FAdd(SumF(SubSeq(s, 1, Len(s) - 1)), s[Len(s)])

\* mean of a sequence of floats: the sum divided by the count
MeanF(s) == FDiv(SumF(s), FromInt(Len(s)))

RECURSIVE MaxF(_)
MaxF(s) ==
    IF Len(s) = 1 THEN s[1]
    ELSE LET m == MaxF(Tail(s)) IN IF FLE(m, s[1]) THEN s[1] ELSE m

RECURSIVE MinF(_)
MinF(s) ==
    IF Len(s) = 1 THEN s[1]
    ELSE LET m == MinF(Tail(s)) IN IF FLE(s[1], m) THEN s[1] ELSE m

\* float32(1e-12) = 9223372 * 2^-63
Eps == <<9223372, -63>>

\* the normalisation without the scaling by 255
NormalizeUnscaled(vals) ==
    LET mx  == MaxF(vals)
        mn  == MinF(vals)
        den == FAdd(FSub(mx, mn), Eps)
    IN  [p \in 1..Len(vals) |-> ToUint8(FDiv(FSub(vals[p], mn), den))]

\* 255 * (v - min) / (max - min + 1e-12), then .to(torch.uint8), for one example
Normalize(vals) ==
    LET mx  == MaxF(vals)
        mn  == MinF(vals)
        den == FAdd(FSub(mx, mn), Eps)
    IN  [p \in 1..Len(vals) |-> ToUint8(FDiv(FMul255(FSub(vals[p], mn)), den))]

\* torch.mean(feature_map, dim=1) of one example: per pixel, over the channels
ChannelMean(ex) ==
    [p \in 1..Len(ex[1]) |-> MeanF([ch \in 1..Len(ex) |-> ex[ch][p]])]

\* the exception SaliencyMapHook.func raises on this input, "none" if it returns
SaliencyMapHook_raises(feature_map, fpn_idx_arg) ==
    IF feature_map.kind = "list" /\ fpn_idx_arg + 1 > Len(feature_map.items)
    THEN "IndexError" ELSE "none"

SaliencyMapHook_func(feature_map, fpn_idx_arg) ==
    LET fm == IF feature_map.kind = "list"
              THEN feature_map.items[fpn_idx_arg + 1]
              ELSE feature_map.t
        bs == Len(fm.data)
    IN  [shape |-> <<bs, fm.h, fm.w>>,
         data  |-> Concat([b \in 1..bs |-> Normalize(ChannelMean(fm.data[b]))])]

\* adaptive_avg_pool2d(f, (1, 1)) of one example: per channel, over the pixels
AvgPool(ex) == [ch \in 1..Len(ex) |-> MeanF(ex[ch])]

FeatureVectorHook_raises(feature_map) ==
    IF feature_map.kind = "list" /\ feature_map.items = <<>>
    THEN "RuntimeError" ELSE "none"

\* the pooling with the levels concatenated last to first
FeatureVectorHook_funcReversed(feature_map) ==
    LET fms == IF feature_map.kind = "list" THEN feature_map.items
               ELSE <<feature_map.t>>
        bs  == Len(fms[1].data)
        vec(b) == Concat([l \in 1..Len(fms) |->
                            AvgPool(fms[Len(fms) + 1 - l].data[b])])
    IN  [shape |-> <<bs, Len(vec(1)), 1, 1>>,
         data  |-> Concat([b \in 1..bs |-> vec(b)])]

FeatureVectorHook_func(feature_map) ==
    LET fms == IF feature_map.kind = "list" THEN feature_map.items
               ELSE <<feature_map.t>>
        bs  == Len(fms[1].data)
        vec(b) == Concat([l \in 1..Len(fms) |-> AvgPool(fms[l].data[b])])
    IN  [shape |-> <<bs, Len(vec(1)), 1, 1>>,
         data  |-> Concat([b \in 1..bs |-> vec(b)])]

\* reshaped_fmap - reshaped_fmap.mean(1) of one example, still indexed [ch][p]
Centered(ex) ==
    [ch \in 1..Len(ex) |-> [p \in 1..Len(ex[ch]) |-> FSub(ex[ch][p], MeanF(ex[ch]))]]

\* the channels of a centred example that are not zero everywhere
NonZeroChannels(cx) ==
    {ch \in 1..Len(cx) : \E p \in 1..Len(cx[ch]) : cx[ch][p] # FZero}

\* The decomposition is modelled for centred matrices with at most one
\* non-zero column: the first right-singular vector is then that column's
\* unit vector (the first column's when all are zero), up to its sign.
SvdModelled(ex) == Cardinality(NonZeroChannels(Centered(ex))) <= 1

PrincipalChannel(cx) ==
    IF NonZeroChannels(cx) = {} THEN 1 ELSE CHOOSE ch \in NonZeroChannels(cx) : TRUE

\* the projection on the unit vector, whatever sign the decomposition gives
ProjectionUnsigned(ex, sign) ==
    LET cx == Centered(ex)
        ax == PrincipalChannel(cx)
    IN  cx[ax]

\* reshaped_fmap @ V[:, 0] of one example, V[:, 0] = sign * unit vector
Projection(ex, sign) ==
    LET cx == Centered(ex)
        ax == PrincipalChannel(cx)
    IN  [p \in 1..Len(cx[ax]) |-> FSign(sign, cx[ax][p])]

EigenCamHook_raises(x) ==
    IF x.kind = "list" THEN "AttributeError" ELSE "none"

\* signs[b]: the sign the decomposition gives the principal axis of example b
EigenCamHook_func(x, signs) ==
    LET bs == Len(x.t.data)
    IN  [shape |-> <<bs, x.t.h, x.t.w>>,
         data  |-> Concat([b \in 1..bs |->
                             Normalize(Projection(x.t.data[b], signs[b]))])]

(***************************************************************************)
(* The hook and the module it is registered with.                          *)
(***************************************************************************)
VARIABLES
    cls,            \* the hook's class
    fpn_idx,        \* self._fpn_idx
    handle,         \* self._handle: None or the id of a RemovableHandle
    records,        \* self._records
    forward_hooks,  \* self._module._forward_hooks: the ids registered
    next_id,        \* the id the next RemovableHandle gets
    call,           \* the last call made on the hook or the module, as the caller saw it
    nEnter,         \* how many times __enter__ was called
    nExit,          \* how many times __exit__ was called and returned
    depth,          \* how many scopes of the hook are open
    nCalls,         \* how many times the module was called
    fin,            \* the input of a transform applied on its own
    fout            \* its result, <<>> before it is applied

vars == <<cls, fpn_idx, handle, records, forward_hooks, next_id, call,
          nEnter, nExit, depth, nCalls, fin, fout>>

hookVars == <<cls, fpn_idx, handle, records, forward_hooks, next_id, call,
              nEnter, nExit, depth, nCalls>>

\* self._handle = None: no handle has id 0
None == 0

\* bounds of the model
MaxBatch == 2
MaxCalls == 2
MaxEnters == 2
MaxExits == 3

F(n) == FromInt(n)

\* the example at position s of a batch, at pyramid level l: two channels, the second constant
Example(s, l) ==
    IF l = 0 THEN <<<<F(s), F(0), F(2), F(4)>>, <<F(1), F(1), F(1), F(1)>>>>
    ELSE IF l = 1 THEN <<<<F(s), F(3)>>, <<F(1), F(1)>>>>
    ELSE <<<<F(s)>>, <<F(1)>>>>

LevelH(l) == IF l = 0 THEN 2 ELSE 1
LevelW(l) == IF l = 2 THEN 1 ELSE 2

\* the batch of bs examples at pyramid level l
LevelTensor(bs, l) ==
    [h |-> LevelH(l), w |-> LevelW(l),
     data |-> [i \in 1..bs |-> Example(i, l)]]

TensorOutput(bs) == [kind |-> "tensor", t |-> LevelTensor(bs, 0)]
ListOutput(bs) ==
    [kind |-> "list", items |-> [l \in 1..3 |-> LevelTensor(bs, l - 1)]]
EmptyListOutput == [kind |-> "list", items |-> <<>>]

\* what the hooked module may return from forward
Outputs ==
    {TensorOutput(bs) : bs \in 1..MaxBatch}
    \cup {ListOutput(bs) : bs \in 1..MaxBatch}
    \cup {EmptyListOutput}

BatchSize(out) ==
    IF out.kind = "tensor" THEN Len(out.t.data)
    ELSE IF out.items = <<>> THEN 0 ELSE Len(out.items[1].data)

Classes == {"SaliencyMapHook", "FeatureVectorHook", "EigenCamHook"}

\* BaseAuxiliaryHook.__init__
Init ==
    /\ cls \in Classes
    /\ fpn_idx \in IF cls = "SaliencyMapHook" THEN 0..2 ELSE {0}
    /\ handle = None
    /\ records = <<>>
    /\ forward_hooks = {}
    /\ next_id = 1
    /\ call = [op |-> "init", raised |-> "none"]
    /\ nEnter = 0
    /\ nExit = 0
    /\ depth = 0
    /\ nCalls = 0
    /\ fin = <<>>
    /\ fout = <<>>

\* the exception self.func(output) raises, "none" if it returns
FuncRaises(c, output) ==
    IF c = "SaliencyMapHook" THEN SaliencyMapHook_raises(output, 0)
    ELSE IF c = "FeatureVectorHook" THEN FeatureVectorHook_raises(output)
    ELSE EigenCamHook_raises(output)

\* self.func(output): only the output is passed
Func(c, output, signs) ==
    IF c = "SaliencyMapHook" THEN SaliencyMapHook_func(output, 0)
    ELSE IF c = "FeatureVectorHook" THEN FeatureVectorHook_func(output)
    ELSE EigenCamHook_func(output, signs)

\* the signs the decomposition may give the principal axes of n examples
Signs(n) == [1..n -> {1, -1}]

\* the calls of self.func that return: <<class, output, signs>>
FuncCalls ==
    {x \in UNION {{<<c, o, sg>> : sg \in Signs(BatchSize(o))} :
                     c \in Classes, o \in Outputs} :
       FuncRaises(x[1], x[2]) = "none"}

\* f itself; the comparison makes TLC evaluate f's values once, not at each use
Tabulated(f) == IF f = f THEN f ELSE f

\* self.func(output) for every call of the model
FuncTable == Tabulated([x \in FuncCalls |-> Func(x[1], x[2], x[3])])

\* the appends of _recording_forward, given func's result as a numpy array
RecordingForward(recs, tensor) ==
    IF ArrLen(tensor) > 1
    THEN recs \o [i \in 1..ArrLen(tensor) |-> ArrItem(tensor, i)]
    ELSE Append(recs, tensor)

\* _recording_forward run once for each of n registered hooks
RECURSIVE RunHooks(_, _, _)
RunHooks(recs, tensor, n) ==
    IF n = 0 THEN recs ELSE RunHooks(RecordingForward(recs, tensor), tensor, n - 1)

\* __enter__: register_forward_hook adds a new handle; the old one is overwritten
Enter ==
    /\ nEnter < MaxEnters
    /\ forward_hooks' = forward_hooks \cup {next_id}
    /\ handle' = next_id
    /\ next_id' = next_id + 1
    /\ nEnter' = nEnter + 1
    /\ depth' = depth + 1
    /\ call' = [op |-> "enter", raised |-> "none"]
    /\ UNCHANGED <<cls, fpn_idx, records, nExit, nCalls, fin, fout>>

\* an exception is on its way out of the with-body
InFlight == call.raised # "none" \/ (call.op = "exit" /\ call.exc)

\* __exit__ with a handle.remove() that raises when the handle is no longer
\* registered
ExitStaleRaises(exc) ==
    /\ exc => InFlight
    /\ IF handle = None
       THEN /\ call' = [op |-> "exit", raised |-> "AttributeError", exc |-> exc]
            /\ UNCHANGED <<forward_hooks, nExit, depth>>
       ELSE /\ nExit < MaxExits
            /\ nExit' = nExit + 1
            /\ depth' = IF depth > 0 THEN depth - 1 ELSE 0
            /\ forward_hooks' = forward_hooks \ {handle}
            /\ call' = [op |-> "exit",
                        raised |-> IF handle \in forward_hooks THEN "none"
                                   ELSE "KeyError",
                        exc |-> exc]
    /\ UNCHANGED <<cls, fpn_idx, handle, records, next_id, nEnter, nCalls, fin, fout>>

\* __exit__(exc_type, ...): self._handle.remove(), which removes the handle's id
\* from the module's hooks if it is there; returns None, so an exception in
\* flight (exc) is not suppressed
Exit(exc) ==
    /\ exc => InFlight
    /\ IF handle = None
       THEN /\ call' = [op |-> "exit", raised |-> "AttributeError", exc |-> exc]
            /\ UNCHANGED <<forward_hooks, nExit, depth>>
       ELSE /\ nExit < MaxExits
            /\ nExit' = nExit + 1
            /\ depth' = IF depth > 0 THEN depth - 1 ELSE 0
            /\ forward_hooks' = forward_hooks \ {handle}
            /\ call' = [op |-> "exit", raised |-> "none", exc |-> exc]
    /\ UNCHANGED <<cls, fpn_idx, handle, records, next_id, nEnter, nCalls, fin, fout>>

\* the module is called: forward returns output, then each registered hook runs
Forward(output, signs) ==
    /\ nCalls < MaxCalls
    /\ nCalls' = nCalls + 1
    /\ IF forward_hooks = {}
       THEN /\ call' = [op |-> "forward", raised |-> "none", output |-> output]
            /\ UNCHANGED records
       ELSE IF FuncRaises(cls, output) # "none"
       THEN /\ call' = [op |-> "forward", raised |-> FuncRaises(cls, output),
                        output |-> output]
            /\ UNCHANGED records
       ELSE /\ call' = [op |-> "forward", raised |-> "none", output |-> output]
            /\ records' = RunHooks(records, FuncTable[<<cls, output, signs>>],
                                   Cardinality(forward_hooks))
    /\ UNCHANGED <<cls, fpn_idx, handle, forward_hooks, next_id, nEnter, nExit,
                   depth, fin, fout>>

Next ==
    \/ Enter
    \/ \E exc \in BOOLEAN : Exit(exc)
    \/ \E output \in Outputs :
         \E signs \in (IF cls = "EigenCamHook" /\ forward_hooks # {}
                       THEN Signs(BatchSize(output))
                       ELSE {[b \in 1..BatchSize(output) |-> 1]}) :
           Forward(output, signs)

Spec == Init /\ [][Next]_vars

(***************************************************************************)
(* Properties of the hook's life cycle.                                    *)
(***************************************************************************)
\* the step is a call of the module
ForwardStep == nCalls' = nCalls + 1

\* the step is a call of __exit__ on a hook that was entered
ExitStep == nExit' = nExit + 1

\* the data of the records the step appended, concatenated
AppendedData ==
    Concat([i \in 1..(Len(records') - Len(records)) |-> records'[Len(records) + i].data])

\* C1: a forward call with batch size B on an attached hook appends exactly B
\* records, example j of the batch at position Len(records) + j.
C1_BatchRecords ==
    [][(ForwardStep /\ forward_hooks # {} /\ call'.raised = "none") =>
         LET out == call'.output
             B   == BatchSize(out)
         IN  /\ Len(records') = Len(records) + B
             /\ SubSeq(records', 1, Len(records)) = records
             /\ \E sg \in Signs(B) :
                  \A j \in 1..B :
                    records'[Len(records) + j].data
                      = ArrItem(FuncTable[<<cls, out, sg>>], j).data]_vars

\* C2: once every scope of the hook has exited, a forward call appends nothing.
C2_NoRecordsAfterExit ==
    [][(ForwardStep /\ nEnter >= 1 /\ depth = 0) => records' = records]_vars

\* C3: a SaliencyMapHook constructed with index k records, for a list output,
\* the saliency of the k-th tensor of the list.
C3_IndexSelects ==
    [][(ForwardStep /\ cls = "SaliencyMapHook" /\ Cardinality(forward_hooks) = 1
          /\ call'.output.kind = "list" /\ fpn_idx < Len(call'.output.items)) =>
         /\ call'.raised = "none"
         /\ AppendedData = SaliencyMapHook_func(call'.output, fpn_idx).data]_vars

\* C4: at most one attachment of the hook is active on its module, so one
\* forward call runs the hook's callback at most once.
C4_AtMostOneAttachment == Cardinality(forward_hooks) <= 1

\* C5: when func fails in a forward call on an attached hook, the call raises
\* and records is unchanged; and when the scopes have exited with the
\* exception in flight, the hook is detached.
C5_FuncFailure ==
    [][/\ (ForwardStep /\ forward_hooks # {} /\ FuncRaises(cls, call'.output) # "none")
            => (call'.raised # "none" /\ records' = records)
       /\ (ExitStep /\ call'.exc /\ depth' = 0) => forward_hooks' = {}]_vars

\* C9: every record of a saliency hook is a 2-D (height x width) map.
C9_RecordsAre2D ==
    cls \in {"SaliencyMapHook", "EigenCamHook"} =>
      \A i \in 1..Len(records) : Len(records[i].shape) = 2

\* C10: after one entry and its exit, a further exit raises nothing and changes
\* neither the attachment (none is active) nor records, and a forward call
\* appends nothing.
C10_SecondExitNoOp ==
    [][(nEnter = 1 /\ depth = 0) =>
         /\ ExitStep => /\ call'.raised = "none"
                        /\ forward_hooks = {} /\ forward_hooks' = {}
                        /\ records' = records
         /\ ForwardStep => (call'.raised = "none" /\ records' = records)]_vars

\* a forward call after the second exit of a hook entered once, records kept
C10_Witness ==
    /\ nEnter = 1 /\ nExit >= 2 /\ call.op = "forward" /\ records # <<>>

(***************************************************************************)
(* The transforms applied on their own.  The hook stays as constructed.    *)
(***************************************************************************)
HookIdle ==
    /\ cls = "SaliencyMapHook"
    /\ fpn_idx = 0
    /\ handle = None
    /\ records = <<>>
    /\ forward_hooks = {}
    /\ next_id = 1
    /\ call = [op |-> "init", raised |-> "none"]
    /\ nEnter = 0
    /\ nExit = 0
    /\ depth = 0
    /\ nCalls = 0

\* the most pixels of an example the normalisation is applied to
NormPixels == 3

\* float32 values: 0, 1, 2, 3, -1, 1 + 32897 * 2^-23, 2^-15, 2^-16,
\* float32(1e-9) and 2^-50
FloatPool ==
    {FZero, F(1), F(2), F(3), F(-1), <<8421505, -23>>, <<8388608, -38>>,
     <<8388608, -39>>, <<9223372, -53>>, <<8388608, -73>>}

\* a (1, 1, 1, n) tensor holding the values vals
RowTensor(vals) == [kind |-> "tensor", t |-> [h |-> 1, w |-> Len(vals), data |-> <<<<vals>>>>]]

\* the (1, 2, 2, 2) tensor with channel 0 all 1 and channel 1 all 3
TwoChannelConstant ==
    [kind |-> "tensor",
     t |-> [h |-> 2, w |-> 2,
            data |-> <<<<<<F(1), F(1), F(1), F(1)>>, <<F(3), F(3), F(3), F(3)>>>>>>]]

NormInputs ==
    {RowTensor(vals) : vals \in UNION {[1..n -> FloatPool] : n \in 2..NormPixels}}
    \cup {TwoChannelConstant}

InitNorm ==
    /\ HookIdle
    /\ fin \in NormInputs
    /\ fout = <<>>

ApplySaliency ==
    /\ fout = <<>>
    /\ fout' = SaliencyMapHook_func(fin, 0)
    /\ UNCHANGED <<hookVars, fin>>

SpecNorm == InitNorm /\ [][ApplySaliency]_vars

\* the values of the one example of fin before normalisation
PreNorm == ChannelMean(fin.t.data[1])

PreNormConstant == \A p \in 1..Len(PreNorm) : PreNorm[p] = PreNorm[1]

\* max - min of the values before normalisation, as float32
PreNormRange == FSub(MaxF(PreNorm), MinF(PreNorm))

MinPixel == CHOOSE v \in {fout.data[p] : p \in 1..Len(fout.data)} :
                \A p \in 1..Len(fout.data) : v <= fout.data[p]
MaxPixel == CHOOSE v \in {fout.data[p] : p \in 1..Len(fout.data)} :
                \A p \in 1..Len(fout.data) : v >= fout.data[p]

\* 2^-15: from this range on, adding 1e-12 to the range rounds back to the range
AbsorbingRange == <<8388608, -38>>

\* C6 as claimed: values not all equal give a map with minimum 0 and maximum
\* 255; values all equal give a map that is 0 everywhere.
C6_MinMaxRange ==
    fout # <<>> =>
      IF PreNormConstant THEN MaxPixel = 0
      ELSE MinPixel = 0 /\ MaxPixel = 255

\* C6 as amended: values not all equal give a map with minimum 0 and maximum
\* at most 255, the maximum being 254 or 255 when max - min is at least 2^-15;
\* values all equal give a map that is 0 everywhere.
C6_MinMaxRangeAmended ==
    fout # <<>> =>
      IF PreNormConstant THEN MinPixel = 0 /\ MaxPixel = 0
      ELSE /\ MinPixel = 0
           /\ MaxPixel <= 255
           /\ FLE(AbsorbingRange, PreNormRange) => MaxPixel >= 254

\* a map whose values are not all equal, of range at least 2^-15, with maximum 254
C6_Witness ==
    /\ fout # <<>>
    /\ ~PreNormConstant
    /\ FLE(AbsorbingRange, PreNormRange)
    /\ MaxPixel = 254

(***************************************************************************)
(* FeatureVectorHook.func on its own.                                      *)
(***************************************************************************)
\* the most examples of a batch the transforms are applied to on their own
FuncBatch == 2

\* float32 values: 0, 2, -3, 1 + 32897 * 2^-23 and 12371662 * 2^-23
ConstPool == {FZero, F(2), F(-3), <<8421505, -23>>, <<12371662, -23>>}

\* the spatial sizes <<h, w>> of the constant tensors
ConstSizes == {<<1, 1>>, <<1, 2>>, <<1, 3>>, <<2, 2>>}

\* the (bs, c, h, w) tensor with value v everywhere
ConstTensor(bs, c, hw, v) ==
    [kind |-> "tensor",
     t |-> [h |-> hw[1], w |-> hw[2],
            data |-> [b \in 1..bs |-> [ch \in 1..c |-> [p \in 1..(hw[1] * hw[2]) |-> v]]]]]

\* pyramid levels: 1 channel of 1x2, 2 channels of 1x1, 2 channels of 1x3;
\* example b holds the level's values plus b
PoolLevel(k, bs) ==
    LET base == IF k = 1 THEN <<<<1, 2>>>>
                ELSE IF k = 2 THEN <<<<3>>, <<5>>>>
                ELSE <<<<1, 2, 4>>, <<0, 0, 1>>>>
    IN  [h |-> 1, w |-> Len(base[1]),
         data |-> [b \in 1..bs |->
                     [ch \in 1..Len(base) |->
                        [p \in 1..Len(base[ch]) |-> F(base[ch][p] + b)]]]]

PoolInputs ==
    {ConstTensor(bs, c, hw, v) : bs \in 1..FuncBatch, c \in 1..2, hw \in ConstSizes,
                                 v \in ConstPool}
    \cup {[kind |-> "list", items |-> [i \in 1..Len(ks) |-> PoolLevel(ks[i], bs)]] :
            bs \in 1..FuncBatch, ks \in UNION {[1..n -> 1..3] : n \in 1..3}}

InitPool ==
    /\ HookIdle
    /\ fin \in PoolInputs
    /\ fout = <<>>

ApplyFeatureVector ==
    /\ fout = <<>>
    /\ fout' = FeatureVectorHook_func(fin)
    /\ UNCHANGED <<hookVars, fin>>

SpecPool == InitPool /\ [][ApplyFeatureVector]_vars

\* the tensors of fin, in order
FinLevels == IF fin.kind = "list" THEN fin.items ELSE <<fin.t>>

\* the channels of the levels before level i, and of all levels
RECURSIVE ChannelsBefore(_)
ChannelsBefore(i) ==
    IF i = 1 THEN 0 ELSE ChannelsBefore(i - 1) + Len(FinLevels[i - 1].data[1])
TotalChannels == ChannelsBefore(Len(FinLevels) + 1)

\* the value of fout for example b, level i, channel ch
FeatureAt(b, i, ch) == fout.data[(b - 1) * TotalChannels + ChannelsBefore(i) + ch]

\* x * 2^ex <= y * 2^ey for naturals x, y < 2^30
ScaledLE(x, ex, y, ey) ==
    IF x = 0 THEN TRUE
    ELSE IF y = 0 THEN FALSE
    ELSE IF ex >= ey
         THEN ex - ey < 31 /\ x <= y \div (2 ^ (ex - ey))
         ELSE ey - ex >= 31 \/ (x + 2 ^ (ey - ex) - 1) \div (2 ^ (ey - ex)) <= y

\* |r - v| <= n * 2^-23 * |v|
WithinRounding(r, v, n) ==
    LET d == FAbs(FSub(r, v))
    IN  ScaledLE(d[1], d[2], n * Abs(v[1]), v[2] - 23)

\* every level is one value v everywhere
FinConstant ==
    \A i \in 1..Len(FinLevels) : \A b \in 1..Len(FinLevels[i].data) :
      \A ch \in 1..Len(FinLevels[i].data[b]) :
        \A p \in 1..Len(FinLevels[i].data[b][ch]) :
          FinLevels[i].data[b][ch][p] = FinLevels[1].data[1][1][1]

\* the blocks of the levels, in order, hold the per-channel spatial means
LevelBlocks ==
    /\ fout.shape = <<Len(FinLevels[1].data), TotalChannels, 1, 1>>
    /\ Len(fout.data) = Len(FinLevels[1].data) * TotalChannels
    /\ \A i \in 1..Len(FinLevels) : \A b \in 1..Len(FinLevels[i].data) :
         \A ch \in 1..Len(FinLevels[i].data[b]) :
           FeatureAt(b, i, ch) = MeanF(FinLevels[i].data[b][ch])

\* C7 as claimed: a constant tensor of value v gives, per example, C values
\* equal to v; a list gives, per example, the levels' per-channel spatial
\* means, level after level.
C7_Pooling ==
    fout # <<>> =>
      /\ LevelBlocks
      /\ (fin.kind = "tensor" /\ FinConstant) =>
           \A k \in 1..Len(fout.data) : fout.data[k] = fin.t.data[1][1][1]

\* C7 as amended: a constant tensor of value v gives, per example, C values
\* within float32 rounding of v (|value - v| <= H*W * 2^-23 * |v|), equal to v
\* when H*W is 1, 2 or 4; a list gives, per example, the levels' per-channel
\* spatial means, level after level.
C7_PoolingAmended ==
    fout # <<>> =>
      /\ LevelBlocks
      /\ (fin.kind = "tensor" /\ FinConstant) =>
           LET v == fin.t.data[1][1][1]
               n == fin.t.h * fin.t.w
           IN  \A k \in 1..Len(fout.data) :
                 /\ WithinRounding(fout.data[k], v, n)
                 /\ n \in {1, 2, 4} => fout.data[k] = v

\* a constant tensor of two examples, two channels and 1 x 3 pixels whose
\* pooled values are not the constant
C7_Witness ==
    /\ fout # <<>>
    /\ fin.kind = "tensor" /\ FinConstant
    /\ fin.t.h * fin.t.w = 3
    /\ Len(fout.data) = 4
    /\ \A k \in 1..4 : fout.data[k] # fin.t.data[1][1][1]

(***************************************************************************)
(* EigenCamHook.func on its own, on X and on -X.                           *)
(***************************************************************************)
\* the most pixels of an example EigenCamHook.func is applied to on its own
EigPixels == 3

EigInts == {0, 1, -2}

\* the exponents the pixel values are scaled by: 2^0 and 2^-50
EigScales == {0, -50}

FScale(a, k) == IF a[1] = 0 THEN a ELSE <<a[1], a[2] + k>>

Reverse(s) == [i \in 1..Len(s) |-> s[Len(s) + 1 - i]]

\* an example with the pixel values row * 2^k in its first channel and, when
\* c = 2, the constant 2^k in its second
EigExample(row, c, k) ==
    LET ch1 == [p \in 1..Len(row) |-> FScale(F(row[p]), k)]
    IN  IF c = 1 THEN <<ch1>>
        ELSE <<ch1, [p \in 1..Len(row) |-> FScale(F(1), k)]>>

\* a batch of bs examples of 1 x n pixels; the second example is the first
\* with its pixels reversed
EigTensor(row, c, k, bs) ==
    [kind |-> "tensor",
     t |-> [h |-> 1, w |-> Len(row),
            data |-> [b \in 1..bs |->
                        EigExample(IF b = 1 THEN row ELSE Reverse(row), c, k)]]]

\* -X
NegOutput(x) ==
    [kind |-> "tensor",
     t |-> [h |-> x.t.h, w |-> x.t.w,
            data |-> [b \in 1..Len(x.t.data) |->
                        [ch \in 1..Len(x.t.data[b]) |->
                           [p \in 1..Len(x.t.data[b][ch]) |-> FNeg(x.t.data[b][ch][p])]]]]]

\* X, and the signs of the principal axes in the run on X and in the run on -X
EigInputs ==
    UNION {{[x |-> EigTensor(row, c, k, bs), signs |-> sg, negSigns |-> nsg] :
              row \in UNION {[1..n -> EigInts] : n \in 2..EigPixels},
              c \in 1..2, k \in EigScales,
              sg \in Signs(bs), nsg \in Signs(bs)} :
           bs \in {b \in 1..FuncBatch : b <= 2}}

InitEigen ==
    /\ HookIdle
    /\ fin \in EigInputs
    /\ fout = <<>>

ApplyEigenCam ==
    /\ fout = <<>>
    /\ fout' = [pos |-> EigenCamHook_func(fin.x, fin.signs),
                neg |-> EigenCamHook_func(NegOutput(fin.x), fin.negSigns)]
    /\ UNCHANGED <<hookVars, fin>>

SpecEigen == InitEigen /\ [][ApplyEigenCam]_vars

\* max - min of the projection of example b of X, as float32
ProjectionRange(b) ==
    LET pr == Projection(fin.x.t.data[b], fin.signs[b])
    IN  FSub(MaxF(pr), MinF(pr))

\* C8 as claimed: func(X) and func(-X) are the same byte map for every
\* example, whatever the signs of the principal axes in the two runs.
C8_SignInvariant ==
    fout # <<>> =>
      \A b \in 1..Len(fin.x.t.data) : ArrItem(fout.pos, b) = ArrItem(fout.neg, b)

\* C8 as amended: func(X) and func(-X) are the same byte map for every example
\* whose principal axis gets opposite signs in the two runs; with the same
\* sign in both runs the two maps differ when the range of the projection is
\* at least 2^-15.
C8_SignInvariantAmended ==
    fout # <<>> =>
      \A b \in 1..Len(fin.x.t.data) :
        /\ fin.signs[b] # fin.negSigns[b]
             => ArrItem(fout.pos, b) = ArrItem(fout.neg, b)
        /\ (fin.signs[b] = fin.negSigns[b] /\ FLE(AbsorbingRange, ProjectionRange(b)))
             => ArrItem(fout.pos, b) # ArrItem(fout.neg, b)

\* two examples with maps that are not constant: the first with opposite signs
\* in the two runs, the second with the same sign
C8_Witness ==
    /\ fout # <<>>
    /\ Len(fin.x.t.data) = 2
    /\ fin.signs[1] # fin.negSigns[1]
    /\ fin.signs[2] = fin.negSigns[2]
    /\ \A b \in 1..2 : \E p \in 1..Len(ArrItem(fout.pos, b).data) :
                         ArrItem(fout.pos, b).data[p] >= 254
    /\ ArrItem(fout.pos, 1) = ArrItem(fout.neg, 1)
    /\ ArrItem(fout.pos, 2) # ArrItem(fout.neg, 2)

=============================================================================
